---- MODULE Spec2Model ----
(***************************************************************************)
(* SmartScanner: boundary fusion and stabilisation.                        *)
(*                                                                         *)
(* The model covers RectangleMath (www/js/rectangle-math.js), the two      *)
(* arbitrators App.arbitrateDetection (www/js/app.js and the newer app     *)
(* controller), HeatmapDetector.detect's frame skipping and the camera /   *)
(* detection-loop / capture handlers of App.                               *)
(*                                                                         *)
(* Coordinates are whole pixels.  The coordinates that the code computes   *)
(* in doubles (the exponential moving average of smoothPoint) move by      *)
(* multiples of PixelStep pixels: prev * a + next * (1 - a) is taken as    *)
(* prev + (1 - a) * (next - prev) with the step rounded to the nearest     *)
(* multiple, so that smoothing a point towards itself leaves it where it   *)
(* is.  Ratios are compared by cross-multiplication, so no ratio is        *)
(* rounded.                                                                *)
(***************************************************************************)
EXTENDS Integers, Sequences, FiniteSets, TLC

VARIABLES
    state,          \* RectangleMath.state (plus state.previousCorners)
    mode,           \* RectangleMath.mode
    finalCorners,   \* value returned by the last RectangleMath.process()
    hist,           \* history of the calls made so far (observation only)
    app,            \* App: version, stream, video, detecting, startCamera
    loops,          \* the detect() closures created by App.startDetection
    heat,           \* HeatmapDetector: frameCount, lastCorners
    cap,            \* the captureWithCorners call in progress
    obs,            \* what the last step did (observation only)
    arb,            \* one call of App.arbitrateDetection
    fn              \* one call of a function on its own: arguments, result

trackerVars == <<state, mode, finalCorners, hist>>
appVars == <<app, loops, heat, cap, obs>>
vars == <<state, mode, finalCorners, hist, app, loops, heat, cap, obs, arb, fn>>

-----------------------------------------------------------------------------
(* Bounds of the model *)

FrameW == 160           \* video.videoWidth  (pixels)
FrameH == 120           \* video.videoHeight (pixels)
PixelStep == 4          \* resolution of a smoothing step (pixels)
MaxRejectCount == 1     \* cap on state.rejectCount
MaxMissRun == 6         \* cap on the observed run of frames without candidate
MaxLoops == 2           \* detect() closures alive at the same time

-----------------------------------------------------------------------------
(* RectangleMath.CONFIG *)

ANGLE_MIN == 30                 \* degrees
ANGLE_MAX == 150                \* degrees
PARALLEL_RATIO_PREVIEW == 18    \* 1.8, in tenths
PARALLEL_RATIO_CAPTURE == 20    \* 2.0, in tenths
PARALLEL_RATIO_BOOK == 25       \* 2.5, in tenths
SMOOTHING_ALPHA_LOCKED == 75    \* 0.75, in percent
SMOOTHING_ALPHA_UNLOCKED == 50  \* 0.50, in percent
JITTER_THRESHOLD == 6           \* pixels
STABLE_FRAMES_REQUIRED == 8
UNLOCK_MOVEMENT == 15           \* pixels
UNLOCK_FRAMES == 2

-----------------------------------------------------------------------------
(* Values *)

Null == <<>>                    \* JavaScript null / undefined
NoReason == "null"              \* lastRejectReason === null

Pt(px, py) == [x |-> px, y |-> py]
Quad(a, b, c, d) == [tl |-> a, tr |-> b, br |-> c, bl |-> d]
Keys == <<"tl", "tr", "br", "bl">>

Max(a, b) == IF a >= b THEN a ELSE b
Min(a, b) == IF a <= b THEN a ELSE b
Abs(a) == IF a < 0 THEN -a ELSE a

\* Math.sqrt on the pixel grid: the integer part of the root.
RECURSIVE SqrtSearch(_, _, _)
SqrtSearch(n, lo, hi) ==
    IF lo >= hi THEN lo
    ELSE LET mid == (lo + hi + 1) \div 2
         IN  IF mid * mid <= n THEN SqrtSearch(n, mid, hi)
                               ELSE SqrtSearch(n, lo, mid - 1)
\* squared length of the segment p1 p2
dist2(p1, p2) == (p2.x - p1.x) * (p2.x - p1.x) + (p2.y - p1.y) * (p2.y - p1.y)

\* RectangleMath.distance; the root lies between the longer leg and the sum
\* of the legs
distance(p1, p2) ==
    SqrtSearch(dist2(p1, p2), Max(Abs(p2.x - p1.x), Abs(p2.y - p1.y)),
               Abs(p2.x - p1.x) + Abs(p2.y - p1.y))

\* RectangleMath.cloneCorners: a quad is a value, so the clone is the quad
cloneCorners(c) == Quad(Pt(c.tl.x, c.tl.y), Pt(c.tr.x, c.tr.y),
                        Pt(c.br.x, c.br.y), Pt(c.bl.x, c.bl.y))

\* four times RectangleMath.averageCornerMovement (the code divides by 4)
cornerMovementTotal(c1, c2) ==
    distance(c1.tl, c2.tl) + distance(c1.tr, c2.tr)
        + distance(c1.br, c2.br) + distance(c1.bl, c2.bl)

\* averageCornerMovement(c1, c2) < px
movementBelow(c1, c2, px) == cornerMovementTotal(c1, c2) < 4 * px
\* averageCornerMovement(c1, c2) > px
movementAbove(c1, c2, px) == cornerMovementTotal(c1, c2) > 4 * px

-----------------------------------------------------------------------------
(* Corner ordering *)

\* "const x = v; ... x ...": v is computed once
With(v, F(_)) == CHOOSE r \in {F(x) : x \in {v}} : TRUE

\* RectangleMath.sortCorners on a 4-tuple of points.  All quantities are
\* taken times 4, which keeps the centroid an integer.
sortCorners(pts) ==
    LET \* atan2(a, b) with a = p.x - cx, b = -(p.y - cy); a is ab[i] and
        \* b is ab[i + 4]
        centred(p) ==
            LET sx == p[1].x + p[2].x + p[3].x + p[4].x
                sy == p[1].y + p[2].y + p[3].y + p[4].y
            IN  <<4 * p[1].x - sx, 4 * p[2].x - sx,
                  4 * p[3].x - sx, 4 * p[4].x - sx,
                  sy - 4 * p[1].y, sy - 4 * p[2].y,
                  sy - 4 * p[3].y, sy - 4 * p[4].y>>
        \* sector of the angle in (-pi, pi]:
        \*   0: (-pi, 0)   1: 0   2: (0, pi)   3: pi
        sectorOf(ab, i) == IF ab[i] < 0 THEN 0
                           ELSE IF ab[i] > 0 THEN 2
                           ELSE IF ab[i + 4] > 0 THEN 1 ELSE 3
        angleLess(ab, sector, i, j) ==
            \/ sector[i] < sector[j]
            \/ /\ sector[i] = sector[j]
               /\ sector[i] \in {0, 2}
               /\ ab[j] * ab[i + 4] - ab[i] * ab[j + 4] > 0
        \* Array.prototype.sort is stable
        before(ab, sector, i, j) ==
            \/ angleLess(ab, sector, i, j)
            \/ (~angleLess(ab, sector, j, i) /\ i < j)
        rankOf(ab, sector, i) ==
            Cardinality({j \in 1..4 : j # i /\ before(ab, sector, j, i)}) + 1
        at(rank, r) == CHOOSE i \in 1..4 : rank[i] = r
        scoreOf(ab, withAngles, r) == ab[withAngles[r]] - ab[withAngles[r] + 4]
        \* first index of the smallest x + y
        tlOf(score) == CHOOSE r \in 1..4 :
                          /\ \A q \in 1..4 : score[r] <= score[q]
                          /\ \A q \in 1..(r - 1) : score[q] > score[r]
    IN  With(pts, LAMBDA p :
        With(centred(p), LAMBDA ab :
        With(<<sectorOf(ab, 1), sectorOf(ab, 2),
               sectorOf(ab, 3), sectorOf(ab, 4)>>, LAMBDA sector :
        With(<<rankOf(ab, sector, 1), rankOf(ab, sector, 2),
               rankOf(ab, sector, 3), rankOf(ab, sector, 4)>>, LAMBDA rank :
        With(<<at(rank, 1), at(rank, 2), at(rank, 3), at(rank, 4)>>,
             LAMBDA withAngles :
        With(tlOf(<<scoreOf(ab, withAngles, 1), scoreOf(ab, withAngles, 2),
                    scoreOf(ab, withAngles, 3), scoreOf(ab, withAngles, 4)>>),
             LAMBDA tlIdx :
            Quad(p[withAngles[((tlIdx - 1) % 4) + 1]],
                 p[withAngles[(tlIdx % 4) + 1]],
                 p[withAngles[((tlIdx + 1) % 4) + 1]],
                 p[withAngles[((tlIdx + 2) % 4) + 1]])))))))

\* RectangleMath.ensureOrdered
ensureOrdered(corners) ==
    IF corners = Null THEN Null
    ELSE IF corners.tl = Null \/ corners.tr = Null
              \/ corners.br = Null \/ corners.bl = Null THEN Null
    ELSE sortCorners(<<corners.tl, corners.tr, corners.br, corners.bl>>)

-----------------------------------------------------------------------------
(* 1. Validity constraints *)

\* tan(6 degrees) = 0.105104..., as the fraction Tan6Num / Tan6Den
Tan6Num == 103
Tan6Den == 980

\* RectangleMath.hasValidCorners: every corner is present (coordinates of a
\* present corner are numbers in this model)
hasValidCorners(c) ==
    /\ c # Null
    /\ c.tl # Null /\ c.tr # Null /\ c.br # Null /\ c.bl # Null

\* the list [c.tl, c.tr, c.br, c.bl], indexed 0..3
cornerAt(c, i) == c[Keys[(i % 4) + 1]]

\* RectangleMath.isConvex
isConvex(c) ==
    LET cross(i) ==
            LET p1 == cornerAt(c, i)
                p2 == cornerAt(c, i + 1)
                p3 == cornerAt(c, i + 2)
            IN  (p2.x - p1.x) * (p3.y - p2.y) - (p2.y - p1.y) * (p3.x - p2.x)
    IN  ~ \E i, j \in 0..3 : cross(i) > 0 /\ cross(j) < 0

\* the preview and capture limits exchanged
getMaxParallelRatioSwapped(m) ==
    CASE m = "capture" -> PARALLEL_RATIO_PREVIEW
      [] m = "book" -> PARALLEL_RATIO_BOOK
      [] OTHER -> PARALLEL_RATIO_CAPTURE

\* RectangleMath.getMaxParallelRatio, in tenths
getMaxParallelRatio(m) ==
    CASE m = "capture" -> PARALLEL_RATIO_CAPTURE
      [] m = "book" -> PARALLEL_RATIO_BOOK
      [] OTHER -> PARALLEL_RATIO_PREVIEW

\* Math.max(l1, l2) / Math.min(l1, l2) <= r10 / 10 on squared lengths; a zero
\* minimum makes the quotient Infinity or NaN and the comparison false
ratioWithin(a2, b2, r10) ==
    /\ Min(a2, b2) > 0
    /\ 100 * Max(a2, b2) <= r10 * r10 * Min(a2, b2)

\* RectangleMath.checkParallelEdgeRatioWithDetails(c).valid
checkParallelEdgeRatioWithDetails(c, m) ==
    /\ ratioWithin(dist2(c.tl, c.tr), dist2(c.bl, c.br), getMaxParallelRatio(m))
    /\ ratioWithin(dist2(c.tl, c.bl), dist2(c.tr, c.br), getMaxParallelRatio(m))

\* twice RectangleMath.quadArea (shoelace)
quadArea2(c) ==
    LET term(i) == cornerAt(c, i).x * cornerAt(c, i + 1).y
                       - cornerAt(c, i + 1).x * cornerAt(c, i).y
    IN  Abs(term(0) + term(1) + term(2) + term(3))

\* RectangleMath.getSideLengths, squared
getSideLengths2(c) ==
    <<dist2(c.tl, c.tr), dist2(c.tr, c.br), dist2(c.br, c.bl), dist2(c.bl, c.tl)>>

\* RectangleMath.calculateInternalAngles(c).some(a => a < 6 || a > 174):
\* the angle at a vertex is below 6 or above 174 degrees exactly when
\* |cross| < tan(6) * |dot| for the two edge vectors at that vertex
hasExtremeAngle(c) ==
    \E i \in 0..3 :
        LET p1 == cornerAt(c, i + 3)
            p2 == cornerAt(c, i)
            p3 == cornerAt(c, i + 1)
            v1x == p1.x - p2.x
            v1y == p1.y - p2.y
            v2x == p3.x - p2.x
            v2y == p3.y - p2.y
            dot == v1x * v2x + v1y * v2y
            crs == v1x * v2y - v1y * v2x
        IN  Tan6Den * Abs(crs) < Tan6Num * Abs(dot)

\* RectangleMath.validateAndCorrect: the reject reason ("ok" when accepted).
validateReason(corners, frameW, frameH, m) ==
    LET sides == getSideLengths2(corners)
        maxSide2 == Max(Max(sides[1], sides[2]), Max(sides[3], sides[4]))
        minSide2 == Min(Min(sides[1], sides[2]), Min(sides[3], sides[4]))
        margin20 == Min(frameW, frameH)     \* 20 * margin, margin = 5 %
        outside(p) == \/ 20 * p.x < -margin20
                      \/ 20 * p.x > 20 * frameW + margin20
                      \/ 20 * p.y < -margin20
                      \/ 20 * p.y > 20 * frameH + margin20
    IN  IF ~hasValidCorners(corners) THEN "invalid_corners"
        ELSE IF ~isConvex(corners) THEN "not_convex"
        ELSE IF ~checkParallelEdgeRatioWithDetails(corners, m) THEN "parallel_ratio"
        ELSE IF 100 * quadArea2(corners) < 2 * frameW * frameH THEN "area_too_small"
        ELSE IF 400 * minSide2 < 9 * maxSide2 THEN "triangle_shape"
        ELSE IF \E i \in 0..3 : outside(cornerAt(corners, i)) THEN "corner_outside_frame"
        ELSE IF hasExtremeAngle(corners) THEN "extreme_angle"
        ELSE "ok"

\* RectangleMath.validateAndCorrect: the returned corners (null when rejected)
validateAndCorrect(corners, frameW, frameH, m) ==
    IF validateReason(corners, frameW, frameH, m) = "ok" THEN corners ELSE Null

-----------------------------------------------------------------------------
(* 4. - 6. Temporal smoothing, movement gating, stability lock.            *)
(* Each operator takes RectangleMath.state and returns the new state and   *)
(* the value the method returns: [st |-> ..., ret |-> ...].                *)

\* round half up of n / d, d > 0
\* Math.round(n / d) for d > 0
RoundDiv(n, d) == (2 * n + d) \div (2 * d)

\* a smoothing that runs to the new point and does not rest there
smoothPointRestless(prev, next, alpha) ==
    IF prev = next THEN Pt(prev.x + PixelStep, prev.y) ELSE next

\* RectangleMath.smoothPoint, alpha in percent
smoothPoint(prev, next, alpha) ==
    Pt(prev.x + PixelStep * RoundDiv((100 - alpha) * (next.x - prev.x),
                                     100 * PixelStep),
       prev.y + PixelStep * RoundDiv((100 - alpha) * (next.y - prev.y),
                                     100 * PixelStep))

\* RectangleMath.applyTemporalSmoothing
applyTemporalSmoothing(s, newCorners) ==
    IF s.smoothedCorners = Null
    THEN [st |-> [s EXCEPT !.smoothedCorners = cloneCorners(newCorners)],
          ret |-> newCorners]
    ELSE LET alpha == IF s.isLocked THEN SMOOTHING_ALPHA_LOCKED
                                    ELSE SMOOTHING_ALPHA_UNLOCKED
             prev == s.smoothedCorners
             smoothed == Quad(smoothPoint(prev.tl, newCorners.tl, alpha),
                              smoothPoint(prev.tr, newCorners.tr, alpha),
                              smoothPoint(prev.br, newCorners.br, alpha),
                              smoothPoint(prev.bl, newCorners.bl, alpha))
         IN  [st |-> [s EXCEPT !.smoothedCorners = smoothed], ret |-> smoothed]

\* RectangleMath.applyMovementGating
applyMovementGating(s, corners) ==
    IF s.previousGatedCorners = Null
    THEN [st |-> [s EXCEPT !.previousGatedCorners = cloneCorners(corners)],
          ret |-> corners]
    ELSE IF movementBelow(s.previousGatedCorners, corners, JITTER_THRESHOLD)
    THEN [st |-> s, ret |-> s.previousGatedCorners]
    ELSE [st |-> [s EXCEPT !.previousGatedCorners = cloneCorners(corners)],
          ret |-> corners]

\* a lock that waits for one stable frame more
lockReachedLate(count) == count >= STABLE_FRAMES_REQUIRED + 1

lockReachedEarly(count) == count >= STABLE_FRAMES_REQUIRED - 1

\* "Check if should lock": stableFrameCount >= CONFIG.STABLE_FRAMES_REQUIRED
lockReached(count) == count >= STABLE_FRAMES_REQUIRED

unlockReachedEarly(count) == count >= UNLOCK_FRAMES - 1

\* "FAST UNLOCK": unlockFrameCount >= CONFIG.UNLOCK_FRAMES
unlockReached(count) == count >= UNLOCK_FRAMES

\* RectangleMath.updateStabilityLock
updateStabilityLock(s, corners) ==
    IF s.isLocked /\ s.lockedRectangle # Null
    THEN IF movementAbove(s.lockedRectangle, corners, UNLOCK_MOVEMENT)
              /\ unlockReached(s.unlockFrameCount + 1)
         THEN [st |-> [s EXCEPT !.isLocked = FALSE,
                                !.lockedRectangle = Null,
                                !.stableFrameCount = 0,
                                !.unlockFrameCount = 0,
                                !.smoothedCorners = cloneCorners(corners)],
               ret |-> corners]
         ELSE [st |-> [s EXCEPT !.unlockFrameCount =
                            IF movementAbove(s.lockedRectangle, corners, UNLOCK_MOVEMENT)
                            THEN @ + 1 ELSE 0],
               ret |-> s.lockedRectangle]
    ELSE LET count == IF s.previousCorners # Null
                      THEN IF movementBelow(s.previousCorners, corners,
                                            JITTER_THRESHOLD * 2)
                           THEN s.stableFrameCount + 1
                           ELSE Max(0, s.stableFrameCount - 2)
                      ELSE 1
             s1 == [s EXCEPT !.stableFrameCount = count,
                             !.previousCorners = cloneCorners(corners)]
         IN  IF lockReached(count)
             THEN [st |-> [s1 EXCEPT !.isLocked = TRUE,
                                     !.lockedRectangle = cloneCorners(corners),
                                     !.unlockFrameCount = 0],
                   ret |-> cloneCorners(corners)]
             ELSE [st |-> s1, ret |-> corners]

\* RectangleMath.handleNoDetection
handleNoDetection(s) ==
    IF s.isLocked /\ s.lockedRectangle # Null
    THEN [st |-> s, ret |-> s.lockedRectangle]
    ELSE [st |-> [s EXCEPT !.stableFrameCount = Max(0, @ - 1)], ret |-> Null]

\* RectangleMath.handleInvalidDetection
handleInvalidDetection(s) ==
    IF s.smoothedCorners # Null /\ s.stableFrameCount > 2
    THEN [st |-> [s EXCEPT !.stableFrameCount = @ - 1], ret |-> s.smoothedCorners]
    ELSE handleNoDetection(s)

\* steps 4 and 5 of RectangleMath.process: smoothing, then gating
smoothAndGate(s, corners) ==
    LET a == applyTemporalSmoothing(s, corners)
    IN  applyMovementGating(a.st, a.ret)

\* a frame that starts with the reason of the frame before it
keepReason(s) == s

\* "Clear reject reason at start of each frame"
clearReason(s) == [s EXCEPT !.lastRejectReason = NoReason]

\* RectangleMath.process(rawCorners, frameWidth, frameHeight, mode) on state s
process(s, rawCorners, frameW, frameH, m) ==
    LET s0 == clearReason(s)
        ordered == ensureOrdered(rawCorners)
    IN  IF rawCorners = Null
        THEN handleNoDetection([s0 EXCEPT !.lastRejectReason = "no_detection"])
        ELSE IF ordered = Null
        THEN handleInvalidDetection(
                 [s0 EXCEPT !.lastRejectReason = "invalid_corners_structure",
                            !.rejectCount = @ + 1])
        ELSE IF validateAndCorrect(ordered, frameW, frameH, m) = Null
        THEN handleInvalidDetection(
                 [s0 EXCEPT !.lastRejectReason =
                                validateReason(ordered, frameW, frameH, m),
                            !.rejectCount = @ + 1])
        ELSE LET g == smoothAndGate([s0 EXCEPT !.rejectCount = 0], ordered)
             IN  updateStabilityLock(g.st, g.ret)

\* the object literal of RectangleMath.state / RectangleMath.reset();
\* previousCorners is not a key of the literal, so it reads as undefined
resetState ==
    [smoothedCorners |-> Null, previousGatedCorners |-> Null,
     stableFrameCount |-> 0, unlockFrameCount |-> 0,
     lockedRectangle |-> Null, isLocked |-> FALSE,
     lastRejectReason |-> NoReason, rejectCount |-> 0,
     previousCorners |-> Null]

noUnlock(s) == s

\* an unlock that keeps the locked rectangle
unlockFlagOnly(s) == [s EXCEPT !.isLocked = FALSE, !.stableFrameCount = 0]

\* RectangleMath.unlock
unlock(s) ==
    [s EXCEPT !.isLocked = FALSE, !.lockedRectangle = Null, !.stableFrameCount = 0]

getLockedCorners(s) ==
    IF s.isLocked /\ s.lockedRectangle # Null THEN cloneCorners(s.lockedRectangle)
    ELSE Null

\* RectangleMath.getCurrentCorners
getCurrentCorners(s) ==
    IF s.isLocked /\ s.lockedRectangle # Null THEN cloneCorners(s.lockedRectangle)
    ELSE IF s.smoothedCorners # Null THEN cloneCorners(s.smoothedCorners)
    ELSE Null

-----------------------------------------------------------------------------
(* Frames fed to the tracker *)

\* an 80 x 60 pixel rectangle, shifted right by dx pixels
ShiftedRect(dx) ==
    Quad(Pt(36 + dx, 24), Pt(120 + dx, 24),
         Pt(120 + dx, 96), Pt(36 + dx, 96))

\* a 12 x 12 pixel rectangle: below 1 % of the frame
TinyQuad ==
    Quad(Pt(36, 24), Pt(48, 24),
         Pt(48, 36), Pt(36, 36))

\* a candidate without its tl corner
Malformed ==
    [tl |-> Null, tr |-> Pt(120, 24),
     br |-> Pt(120, 96), bl |-> Pt(36, 96)]

Shifts == {0, 24}
RawInputs == {Null, Malformed, TinyQuad} \cup {ShiftedRect(d) : d \in Shifts}
Modes == {"preview"}

\* the frame passes ensureOrdered and validateAndCorrect
IsAccepted(raw, m) ==
    /\ raw # Null
    /\ ensureOrdered(raw) # Null
    /\ validateAndCorrect(ensureOrdered(raw), FrameW, FrameH, m) # Null

-----------------------------------------------------------------------------
(* Observed history of the calls (read by the properties, never by the     *)
(* operations):                                                            *)
(*   call      the last call made                                          *)
(*   fresh     number of frames since reset() when every one of them was   *)
(*             accepted with frame-to-frame movement below the stability   *)
(*             threshold and the tracker was not yet locked; -1 otherwise  *)
(*   accepted  accepted frames since the last reset or unlock, up to       *)
(*             STABLE_FRAMES_REQUIRED                                      *)
(*   miss      consecutive frames without candidate while locked           *)
(*   move      consecutive accepted frames, while locked, whose movement   *)
(*             from the locked quad exceeds UNLOCK_MOVEMENT                *)
(*   last      <<raw>> for the candidate raw of the last process() call    *)
(*             since reset(), <<>> when there was none                     *)

histInit ==
    [call |-> "init", fresh |-> 0, accepted |-> 0, miss |-> 0, move |-> 0,
     last |-> <<>>]

\* s is the state before the call and s2 the state after it; the quad that
\* an accepted frame hands to updateStabilityLock is s2.previousGatedCorners
histAfterProcess(h, s, raw, s2) ==
    LET ok == s2.lastRejectReason = NoReason
        q == s2.previousGatedCorners
        calm == s.previousCorners = Null
                    \/ ~ok
                    \/ movementBelow(s.previousCorners, q, JITTER_THRESHOLD * 2)
        moving == ok /\ s.isLocked /\ s.lockedRectangle # Null
                      /\ movementAbove(s.lockedRectangle, q, UNLOCK_MOVEMENT)
    IN  [call |-> "process",
         fresh |-> IF h.fresh \in 0..(STABLE_FRAMES_REQUIRED - 1) /\ ok
                        /\ ~s.isLocked /\ calm
                   THEN h.fresh + 1 ELSE -1,
         accepted |-> IF s.isLocked /\ ~s2.isLocked THEN 0
                      ELSE IF ok THEN Min(STABLE_FRAMES_REQUIRED, h.accepted + 1)
                      ELSE h.accepted,
         miss |-> IF raw = Null /\ s.isLocked THEN Min(MaxMissRun, h.miss + 1) ELSE 0,
         move |-> IF ~ok THEN h.move
                  ELSE IF moving THEN Min(UNLOCK_FRAMES, h.move + 1)
                  ELSE 0,
         last |-> <<raw>>]

-----------------------------------------------------------------------------
(* State of the App object and of HeatmapDetector after App.init() *)

Versions == {"www", "v2"}   \* www/js/app.js and the newer app controller

appInit(v) ==
    [version |-> v, stream |-> FALSE, videoOk |-> FALSE, detecting |-> FALSE,
     camera |-> "idle"]

\* the detect() closures created by App.startDetection that have not
\* returned for good: ready counts those scheduled by
\* requestAnimationFrame, flying lists, in the order they started, the
\* frames inside processFrame that await HeatmapDetector.detect.  A frame in
\* flight keeps its opencvResult; stale is an observation: a reset()
\* happened since the frame started.
NoLoops == [ready |-> 0, flying |-> <<>>]

\* frameCount is kept modulo SKIP_FRAMES; stale is an observation: a reset()
\* happened since lastCorners was computed
heatInit == [frameCount |-> 0, lastCorners |-> Null, stale |-> FALSE]

\* the call of captureWithCorners that waits for Camera.getPhoto
capInit == [pc |-> "idle", corners |-> Null]

\* What the last step did.  apply: origin of the candidate that a frame
\* passed to RectangleMath.process ("empty" when there was none, "fresh", or
\* "request" / "cache" when it was requested / computed before the last
\* reset).  handed, highRes,
\* rectified, wasLocked, drift: a completed captureWithCorners (the quad
\* given to perspectiveCorrect, isHighRes, whether perspectiveCorrect
\* returned, isLocked before the unlock, whether getCurrentCorners no longer
\* returned the captured quad).  manual: captureForManualCrop was called
\* instead.  inOrder is kept across steps: every frame
\* so far completed before the frames started after it.
obsInit ==
    [apply |-> "none", handed |-> Null, highRes |-> FALSE, rectified |-> FALSE,
     wasLocked |-> FALSE, drift |-> FALSE, manual |-> FALSE, inOrder |-> TRUE]

quiet(o) == [obsInit EXCEPT !.inOrder = o.inOrder]

fnInit == [op |-> "none"]

arbInit ==
    [by |-> "none", opencv |-> Null, heatmap |-> Null, density |-> 0,
     result |-> Null]

-----------------------------------------------------------------------------
(* The RectangleMath API, called directly *)

TrackerInit ==
    /\ state = resetState
    /\ mode = "preview"
    /\ finalCorners = Null
    /\ hist = histInit
    /\ app = appInit("www")
    /\ loops = NoLoops
    /\ heat = heatInit
    /\ cap = capInit
    /\ obs = obsInit
    /\ arb = arbInit
    /\ fn = fnInit

\* RectangleMath.process(raw, videoWidth, videoHeight, m)
ProcessCall(raw, m) ==
    /\ IsAccepted(raw, m) \/ raw = Null \/ state.rejectCount < MaxRejectCount
    /\ LET r == process(state, raw, FrameW, FrameH, m)
       IN  /\ state' = r.st
           /\ finalCorners' = r.ret
           /\ hist' = histAfterProcess(hist, state, raw, r.st)
    /\ mode' = m
    /\ UNCHANGED <<appVars, arb, fn>>

\* RectangleMath.reset()
ResetCall ==
    /\ state' = resetState
    /\ hist' = [histInit EXCEPT !.call = "reset"]
    /\ UNCHANGED <<mode, finalCorners, appVars, arb, fn>>

\* RectangleMath.unlock()
UnlockCall ==
    /\ state' = unlock(state)
    /\ hist' = [hist EXCEPT !.call = "unlock", !.fresh = -1, !.accepted = 0,
                            !.miss = 0, !.move = 0]
    /\ UNCHANGED <<mode, finalCorners, appVars, arb, fn>>

TrackerNext ==
    \/ \E raw \in RawInputs, m \in Modes : ProcessCall(raw, m)
    \/ ResetCall
    \/ UnlockCall

SpecTracker == TrackerInit /\ [][TrackerNext]_vars

-----------------------------------------------------------------------------
(* Detector fusion: CONFIG and Geometry *)

PROCESS_SCALE == 25         \* CONFIG.CAMERA.PROCESS_SCALE 0.25, in percent
SKIP_FRAMES == 4            \* CONFIG.HEATMAP.SKIP_FRAMES
CONFIDENCE_TRUSTED == 25    \* CONFIG.HEATMAP.CONFIDENCE_TRUSTED 0.25, percent
CONFIDENCE_RESCUE == 30     \* CONFIG.HEATMAP.CONFIDENCE_RESCUE 0.30, percent
CONFIDENCE_HIGH == 50       \* the literal 0.5 of heatmapHighConfidence, percent
MIN_EDGE_DENSITY == 15      \* CONFIG.DETECTION.MIN_EDGE_DENSITY 0.15, percent
AGREEMENT_DISTANCE == 30    \* CONFIG.CORNER.AGREEMENT_DISTANCE, pixels
VALIDATE_MARGIN == 5        \* margin of Geometry.validate, pixels

\* a detector result: four corners and _confidence (undefined for OpenCV)
Cand(q, conf) ==
    [tl |-> q.tl, tr |-> q.tr, br |-> q.br, bl |-> q.bl, confidence |-> conf]

\* Geometry.scaleCorners
scaleCorners(corners, fromWidth, fromHeight, toWidth, toHeight) ==
    IF corners = Null THEN Null
    ELSE LET sc(pt) == Pt(RoundDiv(pt.x * toWidth, fromWidth),
                          RoundDiv(pt.y * toHeight, fromHeight))
         IN  Cand(Quad(sc(corners.tl), sc(corners.tr),
                       sc(corners.br), sc(corners.bl)),
                  corners.confidence)

\* Geometry.validate
validate(corners, w, h) ==
    LET inBounds(pt) == /\ pt.x >= -VALIDATE_MARGIN /\ pt.x <= w + VALIDATE_MARGIN
                        /\ pt.y >= -VALIDATE_MARGIN /\ pt.y <= h + VALIDATE_MARGIN
    IN  IF corners = Null THEN Null
        ELSE IF ~inBounds(corners.tl) \/ ~inBounds(corners.tr)
                  \/ ~inBounds(corners.br) \/ ~inBounds(corners.bl) THEN Null
        ELSE corners

\* four times Geometry.cornerDistance (the code divides the sum by 4)
cornerDistance(c1, c2) ==
    distance(c1.tl, c2.tl) + distance(c1.tr, c2.tr)
        + distance(c1.br, c2.br) + distance(c1.bl, c2.bl)

\* Geometry.fixWeakCorner
fixWeakCorner(corners) == IF corners = Null THEN Null ELSE corners

\* heatmapResult && heatmapResult._confidence >= CONFIG.HEATMAP.CONFIDENCE_TRUSTED
heatmapTrusted(heatmapResult) ==
    heatmapResult # Null /\ heatmapResult.confidence >= CONFIDENCE_TRUSTED

\* the flag inAgreement of both arbitrators
inAgreement(opencvResult, heatmapResult) ==
    /\ heatmapTrusted(heatmapResult)
    /\ opencvResult # Null
    /\ cornerDistance(heatmapResult, opencvResult) < 4 * AGREEMENT_DISTANCE

\* App.arbitrateDetection of www/js/app.js
arbitrateDetectionWww(opencvResult, heatmapResult) ==
    IF opencvResult # Null /\ heatmapTrusted(heatmapResult)
          /\ inAgreement(opencvResult, heatmapResult)
    THEN opencvResult
    ELSE IF opencvResult # Null THEN opencvResult
    ELSE IF heatmapTrusted(heatmapResult)
              /\ heatmapResult.confidence >= CONFIDENCE_RESCUE
    THEN heatmapResult
    ELSE Null

\* App.arbitrateDetection of the newer app controller; density is the value
\* that OpenCVDetector.edgeDensity returns for heatmapResult on this frame
arbitrateDetection(opencvResult, heatmapResult, density) ==
    LET heatmapHighConfidence ==
            heatmapResult # Null /\ heatmapResult.confidence >= CONFIDENCE_HIGH
        agree == inAgreement(opencvResult, heatmapResult)
        edgeCheckPassed ==
            IF heatmapHighConfidence /\ ~agree
            THEN density >= MIN_EDGE_DENSITY ELSE TRUE
    IN  IF heatmapHighConfidence /\ edgeCheckPassed THEN heatmapResult
        ELSE IF opencvResult # Null /\ heatmapTrusted(heatmapResult) /\ agree
        THEN heatmapResult
        ELSE IF heatmapTrusted(heatmapResult) /\ ~agree
                  /\ density >= MIN_EDGE_DENSITY
        THEN heatmapResult
        ELSE IF opencvResult # Null THEN opencvResult
        ELSE Null

-----------------------------------------------------------------------------
(* The arbitrators on their own *)

\* candidates in the coordinates of the scaled detection image
DetRect(dx) ==
    Quad(Pt(9 + dx, 6), Pt(30 + dx, 6), Pt(30 + dx, 24), Pt(9 + dx, 24))

ArbOpenCV == {Null, Cand(DetRect(0), Null)}
ArbConfidences ==
    {CONFIDENCE_TRUSTED - 1, CONFIDENCE_TRUSTED, CONFIDENCE_RESCUE - 1,
     CONFIDENCE_RESCUE, CONFIDENCE_HIGH}
ArbShifts == {AGREEMENT_DISTANCE - 1, AGREEMENT_DISTANCE}
ArbHeatmap ==
    {Null} \cup {Cand(DetRect(d), c) : d \in ArbShifts, c \in ArbConfidences}
ArbDensities == {MIN_EDGE_DENSITY - 1, MIN_EDGE_DENSITY}

ArbInit ==
    /\ arb \in {[arbInit EXCEPT !.opencv = o, !.heatmap = h, !.density = d] :
                   o \in ArbOpenCV, h \in ArbHeatmap, d \in ArbDensities}
    /\ state = resetState
    /\ mode = "preview"
    /\ finalCorners = Null
    /\ hist = histInit
    /\ app = appInit("www")
    /\ loops = NoLoops
    /\ heat = heatInit
    /\ cap = capInit
    /\ obs = obsInit
    /\ fn = fnInit

ArbitrateWww ==
    /\ arb.by = "none"
    /\ arb' = [arb EXCEPT !.by = "www",
                          !.result = arbitrateDetectionWww(arb.opencv, arb.heatmap)]
    /\ UNCHANGED <<trackerVars, appVars, fn>>

ArbitrateV2 ==
    /\ arb.by = "none"
    /\ arb' = [arb EXCEPT !.by = "v2",
                          !.result = arbitrateDetection(arb.opencv, arb.heatmap,
                                                        arb.density)]
    /\ UNCHANGED <<trackerVars, appVars, fn>>

ArbNext == ArbitrateWww \/ ArbitrateV2

SpecArb == ArbInit /\ [][ArbNext]_vars

-----------------------------------------------------------------------------
(* App: camera, detection loop, capture *)

\* size of the scaled detection image (ImageProcessor.getScaledImageData)
DetW == RoundDiv(FrameW * PROCESS_SCALE, 100)
DetH == RoundDiv(FrameH * PROCESS_SCALE, 100)

\* what the detectors can report for a frame of the live video
OpenCVResults == {Null, Cand(DetRect(0), Null)}
HeatmapResults == {Cand(DetRect(1), CONFIDENCE_RESCUE)}
Densities == {MIN_EDGE_DENSITY}

\* the variables that a detect() call reads and writes, as one record
World ==
    [state |-> state, finalCorners |-> finalCorners, app |-> app,
     loops |-> loops, heat |-> heat, obs |-> quiet(obs)]

Commit(w) ==
    /\ w.state.rejectCount <= MaxRejectCount
    /\ state' = w.state
    /\ finalCorners' = w.finalCorners
    /\ app' = w.app
    /\ loops' = w.loops
    /\ heat' = w.heat
    /\ obs' = w.obs
    /\ mode' = "preview"

\* the sequence seq without its i-th element
Without(seq, i) == SubSeq(seq, 1, i - 1) \o SubSeq(seq, i + 1, Len(seq))

mayStartFrameAlways(detecting) == TRUE

\* detect(): "if (!this.detecting)"
mayStartFrame(detecting) == ~detecting

\* RectangleMath.reset() as App calls it; every frame in flight and the
\* cached heatmap result now date from before the reset
resetWorld(w) ==
    [w EXCEPT !.state = resetState,
              !.loops.flying = [i \in 1..Len(w.loops.flying) |->
                                   [w.loops.flying[i] EXCEPT !.stale = TRUE]],
              !.heat.stale = (w.heat.lastCorners # Null)]

\* detectDocument from the point where heatmapResult is known, and the rest
\* of processFrame; then detecting = false and requestAnimationFrame(detect).
\* earlier is the number of frames in flight that started before this one.
finishFrame(w, opencvResult, heatmapResult, density, earlier, origin) ==
    LET valid == validate(heatmapResult, DetW, DetH)
        corners == IF w.app.version = "www"
                   THEN arbitrateDetectionWww(opencvResult, valid)
                   ELSE arbitrateDetection(opencvResult, valid, density)
        videoWidth == IF w.app.videoOk THEN FrameW ELSE 0
        videoHeight == IF w.app.videoOk THEN FrameH ELSE 0
        scaled == fixWeakCorner(scaleCorners(corners, DetW, DetH,
                                             videoWidth, videoHeight))
        r == process(w.state, scaled, videoWidth, videoHeight, "preview")
    IN  [w EXCEPT
            !.state = r.st,
            !.finalCorners = r.ret,
            !.app.detecting = FALSE,
            !.obs.apply = IF corners = Null THEN "empty"
                          ELSE IF origin = "cache" /\ corners # valid
                          THEN "fresh" ELSE origin,
            !.obs.inOrder = (@ /\ earlier = 0)]

\* one call of the closure detect() of App.startDetection by a scheduled
\* loop, up to its first wait for something other than a resolved promise
detect(w, opencvResult, density) ==
    IF ~w.app.stream
    THEN [w EXCEPT !.loops.ready = @ - 1]
    ELSE IF ~mayStartFrame(w.app.detecting)
    THEN w
    ELSE IF ~w.app.videoOk
    THEN \* processFrame returns at once
         [w EXCEPT !.app.detecting = FALSE,
                   !.obs.inOrder = (@ /\ w.loops.flying = <<>>)]
    ELSE LET count == (w.heat.frameCount + 1) % SKIP_FRAMES
             w1 == [w EXCEPT !.heat.frameCount = count]
         IN  IF count # 0
             THEN \* HeatmapDetector.detect returns lastCorners
                  finishFrame(w1, opencvResult, w.heat.lastCorners, density,
                              Len(w.loops.flying),
                              IF w.heat.stale THEN "cache" ELSE "fresh")
             ELSE \* HeatmapDetector.detect awaits session.run
                  [w1 EXCEPT !.app.detecting = TRUE,
                             !.loops.ready = @ - 1,
                             !.loops.flying =
                                 Append(@, [opencv |-> opencvResult,
                                            stale |-> FALSE])]

AppInit ==
    /\ state = resetState
    /\ mode = "preview"
    /\ finalCorners = Null
    /\ hist = histInit
    /\ app \in {appInit(v) : v \in Versions}
    /\ loops = NoLoops
    /\ heat = heatInit
    /\ cap = capInit
    /\ obs = obsInit
    /\ arb = arbInit
    /\ fn = fnInit

\* App.startCamera up to "await getUserMedia"
StartCamera ==
    /\ app.camera = "idle"
    /\ app' = [app EXCEPT !.camera = "acquiring",
                          !.stream = FALSE,
                          !.videoOk = IF app.stream THEN FALSE ELSE @]
    /\ obs' = quiet(obs)
    /\ UNCHANGED <<trackerVars, loops, heat, cap, arb, fn>>

\* App.startCamera: getUserMedia resolved, up to the wait for loadedmetadata
CameraAcquired ==
    /\ app.camera = "acquiring"
    /\ app' = [app EXCEPT !.camera = "loading", !.stream = TRUE, !.videoOk = FALSE]
    /\ obs' = quiet(obs)
    /\ UNCHANGED <<trackerVars, loops, heat, cap, arb, fn>>

\* App.startCamera: loadedmetadata fired, up to "await this.video.play()"
CameraLoaded ==
    /\ app.camera = "loading"
    /\ app' = [app EXCEPT !.camera = "playing", !.videoOk = app.stream]
    /\ obs' = quiet(obs)
    /\ UNCHANGED <<trackerVars, loops, heat, cap, arb, fn>>

\* App.startCamera: getUserMedia or the video element failed (catch branch)
CameraFailed ==
    /\ app.camera \in {"acquiring", "loading", "playing"}
    /\ app' = [app EXCEPT !.camera = "idle"]
    /\ obs' = quiet(obs)
    /\ UNCHANGED <<trackerVars, loops, heat, cap, arb, fn>>

\* App.startCamera after play(): RectangleMath.reset(), then
\* startDetection(), whose first detect() call runs at once
CameraReady(opencvResult, density) ==
    /\ app.camera = "playing"
    /\ loops.ready + Len(loops.flying) < MaxLoops
    /\ Commit(detect(resetWorld([World EXCEPT !.app.camera = "idle",
                                              !.loops.ready = @ + 1]),
                     opencvResult, density))
    /\ UNCHANGED <<hist, cap, arb, fn>>

\* App.stopCamera
StopCamera ==
    /\ Commit([resetWorld(World) EXCEPT !.app.stream = FALSE,
                                        !.app.videoOk = FALSE])
    /\ UNCHANGED <<hist, cap, arb, fn>>

\* requestAnimationFrame calls detect() of a scheduled loop
Tick(opencvResult, density) ==
    /\ loops.ready > 0
    /\ Commit(detect(World, opencvResult, density))
    /\ UNCHANGED <<hist, cap, arb, fn>>

\* session.run of the i-th frame in flight resolves with corners:
\* lastCorners is replaced, then the frame is finished
InferenceDone(i, corners, density) ==
    /\ i \in 1..Len(loops.flying)
    /\ Commit(finishFrame([World EXCEPT !.heat.lastCorners = corners,
                                        !.heat.stale = loops.flying[i].stale,
                                        !.loops.ready = @ + 1,
                                        !.loops.flying = Without(@, i)],
                          loops.flying[i].opencv, corners, density, i - 1,
                          IF loops.flying[i].stale THEN "request" ELSE "fresh"))
    /\ UNCHANGED <<hist, cap, arb, fn>>

\* session.run of the i-th frame in flight rejects: detect returns null
InferenceFailed(i, density) ==
    /\ i \in 1..Len(loops.flying)
    /\ Commit(finishFrame([World EXCEPT !.loops.ready = @ + 1,
                                        !.loops.flying = Without(@, i)],
                          loops.flying[i].opencv, Null, density, i - 1,
                          IF loops.flying[i].stale THEN "request" ELSE "fresh"))
    /\ UNCHANGED <<hist, cap, arb, fn>>

\* size of a picture taken by Camera.getPhoto
PhotoW == 2 * FrameW
PhotoH == 2 * FrameH

\* corners multiplied by frame.width / 0
NonFinite == <<"NaN">>

\* captureWithCorners of the newer controller: "Scale corners if we got
\* high-res image"; the video size is read when the picture has arrived
scaledCorners(corners, isHighRes, videoOk) ==
    IF ~isHighRes THEN corners
    ELSE IF ~videoOk THEN NonFinite
    ELSE LET sc(pt) == Pt(RoundDiv(pt.x * PhotoW, FrameW),
                          RoundDiv(pt.y * PhotoH, FrameH))
         IN  Quad(sc(corners.tl), sc(corners.tr), sc(corners.br), sc(corners.bl))

\* App.handleCapture when nothing in it has to be waited for: www/js/app.js,
\* and the newer controller without the Capacitor camera plugin.  rectified
\* is FALSE when perspectiveCorrect throws and the raw frame is kept.
HandleCapture(rectified) ==
    /\ cap.pc = "idle"
    /\ LET corners == getCurrentCorners(state)
       IN  IF corners = Null
           THEN \* captureForManualCrop
                /\ obs' = [quiet(obs) EXCEPT !.manual = TRUE]
                /\ state' = state
           ELSE \* captureWithCorners
                /\ obs' = [quiet(obs) EXCEPT !.handed = corners,
                                             !.rectified = rectified,
                                             !.wasLocked = state.isLocked]
                /\ state' = unlock(state)
    /\ UNCHANGED <<mode, finalCorners, hist, app, loops, heat, cap, arb, fn>>

\* App.handleCapture of the newer controller with the Capacitor camera
\* plugin, up to "await Camera.getPhoto"
CaptureBegin ==
    /\ app.version = "v2"
    /\ cap.pc = "idle"
    /\ getCurrentCorners(state) # Null
    /\ cap' = [pc |-> "photo", corners |-> getCurrentCorners(state)]
    /\ obs' = quiet(obs)
    /\ UNCHANGED <<trackerVars, app, loops, heat, arb, fn>>

\* Camera.getPhoto resolved (isHighRes) or rejected (the video frame is used
\* instead), and the rest of captureWithCorners
CaptureFinish(isHighRes, rectified) ==
    /\ cap.pc = "photo"
    /\ cap' = capInit
    /\ obs' = [quiet(obs) EXCEPT
                  !.handed = scaledCorners(cap.corners, isHighRes, app.videoOk),
                  !.highRes = isHighRes,
                  !.rectified = rectified,
                  !.wasLocked = state.isLocked,
                  !.drift = (getCurrentCorners(state) # cap.corners)]
    /\ state' = unlock(state)
    /\ UNCHANGED <<mode, finalCorners, hist, app, loops, heat, arb, fn>>

AppNext ==
    \/ StartCamera
    \/ CameraAcquired
    \/ CameraLoaded
    \/ CameraFailed
    \/ \E o \in OpenCVResults, d \in Densities : CameraReady(o, d)
    \/ StopCamera
    \/ \E o \in OpenCVResults, d \in Densities : Tick(o, d)
    \/ \E i \in 1..MaxLoops, c \in HeatmapResults, d \in Densities :
            InferenceDone(i, c, d)
    \/ \E i \in 1..MaxLoops, d \in Densities : InferenceFailed(i, d)
    \/ \E r \in BOOLEAN : HandleCapture(r)
    \/ CaptureBegin
    \/ \E h \in BOOLEAN, r \in BOOLEAN : CaptureFinish(h, r)

SpecApp == AppInit /\ [][AppNext]_vars

\* one call of the closure detect() in which processFrame rejects before its
\* first wait: the canvas calls of ImageProcessor.getScaledImageData throw.
\* "await this.processFrame()" then throws inside detect(), so neither
\* "this.detecting = false" nor "requestAnimationFrame(detect)" is run.
detectThrown(w) ==
    [w EXCEPT !.app.detecting = TRUE,
              !.loops.ready = @ - 1]

\* requestAnimationFrame calls detect() of a scheduled loop and the frame
\* cannot be read from the video
TickThrows ==
    /\ loops.ready > 0
    /\ app.stream
    /\ mayStartFrame(app.detecting)
    /\ app.videoOk
    /\ Commit(detectThrown(World))
    /\ UNCHANGED <<hist, cap, arb, fn>>

AppFaultNext ==
    \/ AppNext
    \/ TickThrows

SpecAppFault == AppInit /\ [][AppFaultNext]_vars

-----------------------------------------------------------------------------
(* Functions called on their own *)

\* everything but fn is as after construction
Idle ==
    /\ state = resetState
    /\ mode = "preview"
    /\ finalCorners = Null
    /\ hist = histInit
    /\ app = appInit("www")
    /\ loops = NoLoops
    /\ heat = heatInit
    /\ cap = capInit
    /\ obs = obsInit
    /\ arb = arbInit

\* the values of RectangleMath.mode
AllModes == {"preview", "capture", "book"}

\* ordered candidates with a horizontal top edge at y = 20 and a horizontal
\* bottom edge: rectangles, parallelograms and trapezoids, from 4 pixels
\* high to most of the frame, some reaching over the right border
ValQuad(tlx, trx, brx, blx, bottom) ==
    Quad(Pt(tlx, 20), Pt(trx, 20), Pt(brx, bottom), Pt(blx, bottom))

ValQuads ==
    {ValQuad(tlx, trx, brx, blx, bottom) :
        tlx \in {20, 40, 60}, trx \in {70, 100, 120, 140, 170},
        brx \in {100, 140}, blx \in {20, 60}, bottom \in {24, 30, 100}}

ValidateInit ==
    /\ Idle
    /\ fn \in {[op |-> "validateAndCorrect", corners |-> q, reason |-> Null] :
                  q \in ValQuads}

\* RectangleMath.validateAndCorrect(corners, frameW, frameH) in each mode
ValidateCall ==
    /\ fn.op = "validateAndCorrect"
    /\ fn.reason = Null
    /\ fn' = [fn EXCEPT !.reason =
                  [m \in AllModes |->
                      validateReason(fn.corners, FrameW, FrameH, m)]]
    /\ UNCHANGED <<trackerVars, appVars, arb>>

SpecValidate == ValidateInit /\ [][ValidateCall]_vars

\* coordinates of the points handed to sortCorners
OrderGrid == 2

OrderPoints == {Pt(x, y) : x \in 0..OrderGrid, y \in 0..OrderGrid}

\* four different points in any sequence
OrderInputs ==
    {pts \in [1..4 -> OrderPoints] :
        \A i \in 1..4 : \A j \in 1..4 : i # j => pts[i] # pts[j]}

OrderInit ==
    /\ Idle
    /\ fn \in {[op |-> "sortCorners", pts |-> pts, once |-> Null, twice |-> Null] :
                  pts \in OrderInputs}

\* RectangleMath.sortCorners(pts), and RectangleMath.ensureOrdered on its
\* result
OrderCall ==
    /\ fn.op = "sortCorners"
    /\ fn.once = Null
    /\ fn' = With(sortCorners(fn.pts), LAMBDA once :
                 [fn EXCEPT !.once = once, !.twice = ensureOrdered(once)])
    /\ UNCHANGED <<trackerVars, appVars, arb>>

SpecOrder == OrderInit /\ [][OrderCall]_vars

\* a completion that leaves the flagged corner where it is
completeNothing(corners, angles) == fixWeakCorner(corners)

\* RectangleMath.completePartialRectangle(corners, angles); angles[i] is the
\* angle handed in for Keys[i]
completePartialRectangle(corners, angles) ==
    LET badIndices == {i \in 1..4 : \/ angles[i] < ANGLE_MIN - 10
                                    \/ angles[i] > ANGLE_MAX + 10}
        fourth(p, q, r) == Pt(p.x + q.x - r.x, p.y + q.y - r.y)
    IN  IF Cardinality(badIndices) # 1 THEN Null
        ELSE With(Keys[CHOOSE i \in badIndices : TRUE], LAMBDA badKey :
            CASE badKey = "tl" ->
                    [corners EXCEPT
                        !.tl = fourth(corners.tr, corners.bl, corners.br)]
              [] badKey = "tr" ->
                    [corners EXCEPT
                        !.tr = fourth(corners.tl, corners.br, corners.bl)]
              [] badKey = "br" ->
                    [corners EXCEPT
                        !.br = fourth(corners.tr, corners.bl, corners.tl)]
              [] badKey = "bl" ->
                    [corners EXCEPT
                        !.bl = fourth(corners.tl, corners.br, corners.tr)])

\* exact parallelograms: tl, tl + u, tl + u + v, tl + v
Parallelogram(u, v) ==
    Quad(Pt(20, 20), Pt(20 + u.x, 20 + u.y),
         Pt(20 + u.x + v.x, 20 + u.y + v.y), Pt(20 + v.x, 20 + v.y))

Parallelograms ==
    {Parallelogram(u, v) : u \in {Pt(80, 0), Pt(80, 8)},
                           v \in {Pt(0, 60), Pt(12, 60)}}

\* the quad with the corner of one role moved by an offset
Perturbed(c, key, d) ==
    [c EXCEPT ![key] = Pt(c[key].x + d.x, c[key].y + d.y)]

PerturbOffsets == {Pt(0, 0), Pt(-12, 8), Pt(40, 40)}

\* angle arguments on both sides of the limits ANGLE_MIN - 10 and
\* ANGLE_MAX + 10
AngleValues == {ANGLE_MIN - 11, ANGLE_MIN - 10, ANGLE_MAX + 10, ANGLE_MAX + 11}

CompleteInit ==
    /\ Idle
    /\ fn \in {[op |-> "completePartialRectangle", original |-> c,
                 corners |-> Perturbed(c, Keys[k], d), angles |-> angles,
                 done |-> FALSE, completed |-> Null, fixed |-> Null] :
                  c \in Parallelograms, k \in 1..4, d \in PerturbOffsets,
                  angles \in [1..4 -> AngleValues]}

\* RectangleMath.completePartialRectangle(corners, angles) and
\* Geometry.fixWeakCorner(corners) on the same quad
CompleteCall ==
    /\ fn.op = "completePartialRectangle"
    /\ ~fn.done
    /\ fn' = [fn EXCEPT !.done = TRUE,
                        !.completed = completePartialRectangle(fn.corners, fn.angles),
                        !.fixed = fixWeakCorner(fn.corners)]
    /\ UNCHANGED <<trackerVars, appVars, arb>>

SpecComplete == CompleteInit /\ [][CompleteCall]_vars

MAX_DIMENSION == 4096       \* CONFIG.OUTPUT.MAX_DIMENSION, pixels

\* Math.round(Math.max(a, b)) for lengths in tenths of a pixel
roundedMax(a, b) == RoundDiv(Max(a, b), 10)

\* the output size without the limit of MAX_DIMENSION
outputSizeUnlimited(widthTop, widthBottom, heightLeft, heightRight) ==
    [width |-> roundedMax(widthTop, widthBottom),
     height |-> roundedMax(heightLeft, heightRight)]

\* ImageProcessor.perspectiveCorrect: outWidth and outHeight, from the four
\* edge lengths in tenths of a pixel
outputSize(widthTop, widthBottom, heightLeft, heightRight) ==
    With(roundedMax(widthTop, widthBottom), LAMBDA outWidth :
    With(roundedMax(heightLeft, heightRight), LAMBDA outHeight :
        IF outWidth > MAX_DIMENSION \/ outHeight > MAX_DIMENSION
        THEN \* scale = maxDim / Math.max(outWidth, outHeight)
             [width |-> RoundDiv(outWidth * MAX_DIMENSION,
                                 Max(outWidth, outHeight)),
              height |-> RoundDiv(outHeight * MAX_DIMENSION,
                                  Max(outWidth, outHeight))]
        ELSE [width |-> outWidth, height |-> outHeight]))

\* edge lengths in tenths of a pixel, below and above MAX_DIMENSION and on
\* both sides of a half pixel
EdgeLengths ==
    {1000, 1200, 1400, 1500, 1504, 1505, 40960, 40964, 40965, 50000, 81920}

\* the edges of a quadrilateral: each shorter than the other three together
EdgeInputs ==
    {e \in [{"top", "bottom", "left", "right"} -> EdgeLengths] :
        2 * Max(Max(e.top, e.bottom), Max(e.left, e.right))
            < e.top + e.bottom + e.left + e.right}

SizeInit ==
    /\ Idle
    /\ fn \in {[op |-> "perspectiveCorrect", edges |-> e, size |-> Null] :
                  e \in EdgeInputs}

\* ImageProcessor.perspectiveCorrect up to the computation of the output
\* size
SizeCall ==
    /\ fn.op = "perspectiveCorrect"
    /\ fn.size = Null
    /\ fn' = [fn EXCEPT !.size = outputSize(fn.edges.top, fn.edges.bottom,
                                            fn.edges.left, fn.edges.right)]
    /\ UNCHANGED <<trackerVars, appVars, arb>>

SpecSize == SizeInit /\ [][SizeCall]_vars

\* ImageProcessor.distance in tenths of a pixel
edgeLength(p1, p2) ==
    SqrtSearch(100 * dist2(p1, p2), 0,
               10 * (Abs(p2.x - p1.x) + Abs(p2.y - p1.y)))

\* ImageProcessor.perspectiveCorrect(srcCanvas, corners).  cv is what the
\* OpenCV steps inside the try block do: "done" or "throws".  There is no
\* catch: the finally block deletes the matrices and the exception leaves
\* the function.
perspectiveCorrect(cvReady, corners, cv) ==
    IF ~cvReady THEN [kind |-> "source"]
    ELSE With(outputSize(edgeLength(corners.tl, corners.tr),
                         edgeLength(corners.bl, corners.br),
                         edgeLength(corners.tl, corners.bl),
                         edgeLength(corners.tr, corners.br)), LAMBDA size :
            IF cv = "throws" THEN [kind |-> "raised"]
            ELSE [kind |-> "warped", size |-> size])

\* the try / catch around perspectiveCorrect and cleanEdges in
\* App.captureWithCorners and CropManager.complete
processedImage(rectifier, cleanEdgesThrows) ==
    IF rectifier.kind = "raised" \/ cleanEdgesThrows
    THEN [kind |-> "source"]
    ELSE rectifier

\* four corners on one line, and four corners in one place
Collinear == Quad(Pt(20, 20), Pt(60, 20), Pt(100, 20), Pt(140, 20))

Coincident == Quad(Pt(20, 20), Pt(20, 20), Pt(20, 20), Pt(20, 20))

RectifyQuads == ValQuads \cup {Collinear, Coincident}

RectifyInit ==
    /\ Idle
    /\ fn \in {[op |-> "rectify", cvReady |-> r, corners |-> q,
                 cv |-> "none", rectifier |-> Null, processed |-> Null] :
                  r \in BOOLEAN, q \in RectifyQuads}

\* App.captureWithCorners / CropManager.complete from the call of
\* perspectiveCorrect to the image that is handed on
RectifyCall(cv, cleanEdgesThrows) ==
    /\ fn.op = "rectify"
    /\ fn.cv = "none"
    /\ fn' = With(perspectiveCorrect(fn.cvReady, fn.corners, cv),
                 LAMBDA rectifier :
                    [fn EXCEPT !.cv = cv,
                               !.rectifier = rectifier,
                               !.processed =
                                   processedImage(rectifier, cleanEdgesThrows)])
    /\ UNCHANGED <<trackerVars, appVars, arb>>

RectifyNext ==
    \E cv \in {"done", "throws"}, t \in BOOLEAN : RectifyCall(cv, t)

SpecRectify == RectifyInit /\ [][RectifyNext]_vars

\* a square around the middle of the frame with sides of 2 * half pixels
SquareAt(half) ==
    Quad(Pt(80 - half, 60 - half), Pt(80 + half, 60 - half),
         Pt(80 + half, 60 + half), Pt(80 - half, 60 + half))

\* stabilised quads that reach updateStabilityLock: small and large squares
\* and the rectangles fed to the tracker
StableQuads ==
    {SquareAt(8), SquareAt(14), SquareAt(40), ShiftedRect(0), ShiftedRect(24)}

\* the tracker, not locked, after n counted frames of which the last
\* accepted one left the quad prev (Null: none since reset()), when the
\* smoothed and gated quad of the present frame is corners
trackerBefore(prev, n, corners) ==
    [resetState EXCEPT !.smoothedCorners = corners,
                       !.previousGatedCorners = corners,
                       !.previousCorners = prev,
                       !.stableFrameCount = n]

StabilityInit ==
    /\ Idle
    /\ fn \in {[op |-> "updateStabilityLock",
                 before |-> trackerBefore(prev, n, c), corners |-> c,
                 after |-> Null, ret |-> Null] :
                  prev \in StableQuads, n \in 0..(STABLE_FRAMES_REQUIRED - 1),
                  c \in StableQuads}
             \cup {[op |-> "updateStabilityLock",
                    before |-> trackerBefore(Null, 0, c), corners |-> c,
                    after |-> Null, ret |-> Null] : c \in StableQuads}

\* RectangleMath.updateStabilityLock(corners) on a tracker that is not locked
StabilityCall ==
    /\ fn.op = "updateStabilityLock"
    /\ fn.after = Null
    /\ fn' = With(updateStabilityLock(fn.before, fn.corners), LAMBDA r :
                 [fn EXCEPT !.after = r.st, !.ret = r.ret])
    /\ UNCHANGED <<trackerVars, appVars, arb>>

SpecStability == StabilityInit /\ [][StabilityCall]_vars

-----------------------------------------------------------------------------
(* Configured tolerance for missed frames (CONFIG.STABILITY) *)

MISSED_FRAMES_RESET == 5

-----------------------------------------------------------------------------
(* Lock hysteresis *)

C2_UnlockStep ==
    /\ (state.isLocked /\ ~state'.isLocked /\ hist'.call = "process")
          => (hist'.move = UNLOCK_FRAMES /\ hist.move = UNLOCK_FRAMES - 1)
    /\ (state.isLocked /\ hist'.call = "process"
            /\ state'.lastRejectReason = NoReason /\ hist'.move = 0)
          => (/\ state'.isLocked
              /\ state'.unlockFrameCount = 0
              /\ state'.lockedRectangle = state.lockedRectangle)

C3_NoDetectionDecay ==
    hist.miss > MISSED_FRAMES_RESET => ~state.isLocked

-----------------------------------------------------------------------------
(* Detection loop and capture *)

\* C4: a frame whose candidate was requested from HeatmapDetector.detect
\* before the last reset(), or is a heatmap result cached from before that
\* reset, leaves the tracker state as it is.
C4_StaleDiscarded ==
    [][obs'.apply \in {"request", "cache"} => state' = state]_vars

\* C5: at most one frame is between the start and the completion of
\* processFrame, however many detect() loops are alive, and every frame
\* completed before the frames that started after it.
C5_OneFrameInFlight ==
    /\ Len(loops.flying) <= 1
    /\ obs.inOrder

C5_Witness ==
    /\ loops.ready >= 1
    /\ Len(loops.flying) = 1
    /\ app.detecting
    /\ app.stream

C7_SnapshotStep ==
    LET snapshot == IF state.isLocked /\ state.lockedRectangle # Null
                    THEN state.lockedRectangle
                    ELSE state.smoothedCorners
    IN  /\ (cap.pc = "idle" /\ cap'.pc = "photo")
              => (snapshot # Null /\ cap'.corners = snapshot)
        /\ (cap.pc = "idle" /\ cap'.pc = "idle" /\ obs'.handed # Null)
              => obs'.handed = snapshot
        /\ (cap.pc = "photo" /\ cap'.pc = "photo") => cap'.corners = cap.corners
        /\ (cap.pc = "photo" /\ cap'.pc = "idle")
              => obs'.handed = scaledCorners(cap.corners, obs'.highRes, app.videoOk)
        /\ (cap.pc = "idle" /\ snapshot = Null)
              => (cap'.pc = "idle" /\ obs'.handed = Null)
        /\ obs'.manual => snapshot = Null

\* C7: the quad a capture takes is lockedRectangle when locked, otherwise
\* the smoothed quad when there is one, otherwise none (manual crop); the
\* capture in progress keeps that quad whatever frames are processed
\* meanwhile, and the quad given to rectification is that quad, brought to
\* the size of the picture when a high-resolution picture arrived.
C7_CaptureSnapshot == [][C7_SnapshotStep]_vars

C7_Witness ==
    /\ obs.handed # Null
    /\ obs.drift
    /\ ~obs.highRes
    /\ cap.pc = "idle"

-----------------------------------------------------------------------------
(* Arbitration rules *)

\* C8: with an OpenCV candidate and a heatmap candidate of confidence at
\* least CONFIDENCE_TRUSTED that is not in agreement with it (mean corner
\* distance at least AGREEMENT_DISTANCE), the arbitrator returns the heatmap
\* candidate when its edge density is at least MIN_EDGE_DENSITY and the OpenCV
\* candidate otherwise.
C8_CrossCheck ==
    (/\ arb.by # "none"
     /\ arb.opencv # Null
     /\ heatmapTrusted(arb.heatmap)
     /\ cornerDistance(arb.heatmap, arb.opencv) >= 4 * AGREEMENT_DISTANCE)
        => arb.result = IF arb.density >= MIN_EDGE_DENSITY
                        THEN arb.heatmap ELSE arb.opencv

\* C9: when the OpenCV candidate and a heatmap candidate of confidence at
\* least CONFIDENCE_TRUSTED agree within AGREEMENT_DISTANCE, the arbitrator
\* returns the heatmap candidate.
C9_AgreementRule ==
    (/\ arb.by # "none"
     /\ arb.opencv # Null
     /\ heatmapTrusted(arb.heatmap)
     /\ cornerDistance(arb.heatmap, arb.opencv) < 4 * AGREEMENT_DISTANCE)
        => arb.result = arb.heatmap

\* C10: without an OpenCV candidate, a heatmap candidate of confidence at
\* least CONFIDENCE_RESCUE is returned, also when the edge check failed; the
\* arbitrator returns nothing only when the heatmap candidate is absent or
\* below CONFIDENCE_RESCUE.
C10_RescueRule ==
    (arb.by # "none" /\ arb.opencv = Null)
        => /\ (arb.heatmap # Null /\ arb.heatmap.confidence >= CONFIDENCE_RESCUE)
                => arb.result = arb.heatmap
           /\ arb.result = Null
                => (arb.heatmap = Null
                    \/ arb.heatmap.confidence < CONFIDENCE_RESCUE)

-----------------------------------------------------------------------------
(* The validator called on its own (SpecValidate) *)

validated == fn.op = "validateAndCorrect" /\ fn.reason # Null

\* the shoelace area is below pct percent of the frame
areaBelow(c, pct) == 100 * quadArea2(c) < 2 * pct * FrameW * FrameH

\* the longer diagonal is more than 1.15 times the shorter one
diagonalMismatch(c) ==
    400 * Max(dist2(c.tl, c.br), dist2(c.tr, c.bl))
        > 529 * Min(dist2(c.tl, c.br), dist2(c.tr, c.bl))

\* an axis-aligned rectangle that lies inside the frame
rectangleInFrame(c) ==
    /\ c.tl.x = c.bl.x /\ c.tr.x = c.br.x
    /\ c.tl.y = c.tr.y /\ c.bl.y = c.br.y
    /\ 0 <= c.tl.x /\ c.tl.x < c.tr.x /\ c.tr.x <= FrameW
    /\ 0 <= c.tl.y /\ c.tl.y < c.bl.y /\ c.bl.y <= FrameH

\* C11: the first failing check names the rejection, and the minimum area
\* is checked before the parallel edges: a convex quad that is both too
\* small and has mismatched parallel edges is reported as too small.
C11_CheckOrder ==
    validated =>
        \A m \in AllModes :
            (/\ isConvex(fn.corners)
             /\ areaBelow(fn.corners, 3)
             /\ ~checkParallelEdgeRatioWithDetails(fn.corners, m))
                => fn.reason[m] = "area_too_small"

\* C12: every quad whose diagonals differ by more than the ratio 1.15 is
\* rejected, a parallelogram with equal opposite sides included.
C12_DiagonalConsistency ==
    validated =>
        \A m \in AllModes :
            diagonalMismatch(fn.corners) => fn.reason[m] # "ok"

\* C13: every axis-aligned rectangle inside the frame that meets the minimum
\* area is accepted in every mode, whatever its aspect ratio.
C13_RectangleAccepted ==
    validated =>
        \A m \in AllModes :
            (rectangleInFrame(fn.corners) /\ ~areaBelow(fn.corners, 3))
                => fn.reason[m] = "ok"

\* C14: a quad is accepted only if its shoelace area is at least 0.03 times
\* the frame area.
C14_MinimumArea ==
    validated =>
        \A m \in AllModes :
            fn.reason[m] = "ok" => ~areaBelow(fn.corners, 3)

\* C15: a quad accepted in preview mode is accepted in capture mode, and a
\* quad accepted in capture mode is accepted in book mode.
C15_ModeMonotonic ==
    validated =>
        /\ fn.reason["preview"] = "ok" => fn.reason["capture"] = "ok"
        /\ fn.reason["capture"] = "ok" => fn.reason["book"] = "ok"

\* a quad that only the looser modes accept has been validated
C15_Witness ==
    /\ validated
    /\ fn.reason["preview"] = "parallel_ratio"
    /\ fn.reason["capture"] = "ok"
    /\ fn.reason["book"] = "ok"

-----------------------------------------------------------------------------
(* Corner ordering called on its own (SpecOrder) *)

ordered == fn.op = "sortCorners" /\ fn.once # Null

\* C16: ordering an ordered quad again changes nothing, and the ordered
\* quad consists of exactly the four input points.
C16_OrderIdempotent ==
    ordered =>
        /\ fn.twice = fn.once
        /\ \E perm \in [1..4 -> 1..4] :
              /\ \A i \in 1..4 : \A j \in 1..4 : i # j => perm[i] # perm[j]
              /\ fn.once = Quad(fn.pts[perm[1]], fn.pts[perm[2]],
                                fn.pts[perm[3]], fn.pts[perm[4]])

-----------------------------------------------------------------------------
(* Completion called on its own (SpecComplete) *)

\* the roles whose angle argument marks the corner as weak
weakKeys(angles) ==
    {Keys[i] : i \in {j \in 1..4 : \/ angles[j] < ANGLE_MIN - 10
                                     \/ angles[j] > ANGLE_MAX + 10}}

\* the quad differs from the exact parallelogram at most in the weak corner
onlyWeakMoved ==
    \A i \in 1..4 :
        Keys[i] \notin weakKeys(fn.angles)
            => fn.corners[Keys[i]] = fn.original[Keys[i]]

completedCall == fn.op = "completePartialRectangle" /\ fn.done

C18_AmbiguousUnchanged ==
    (completedCall /\ Cardinality(weakKeys(fn.angles)) # 1)
        => (fn.completed = fn.corners /\ fn.fixed = fn.corners)

-----------------------------------------------------------------------------
(* Output sizing of the rectifier called on its own (SpecSize) *)

sized == fn.op = "perspectiveCorrect" /\ fn.size # Null

\* r is n / d rounded to the nearest integer, halves upwards
isRounded(r, n, d) == 2 * d * r - d <= 2 * n /\ 2 * n < 2 * d * r + d

\* the rounded maxima of the two widths and of the two heights
fullWidth == (Max(fn.edges.top, fn.edges.bottom) + 5) \div 10

fullHeight == (Max(fn.edges.left, fn.edges.right) + 5) \div 10

-----------------------------------------------------------------------------
(* The rectifier inside the capture flow (SpecRectify) *)

\* no projective transform exists for the quad: its corners enclose no area
singular(c) == quadArea2(c) = 0

\* C20: when the transform cannot be computed or applied (the quad is
\* singular or an OpenCV step fails), the rectifier returns the original
\* image instead of raising, and the capture flow continues with that
\* image.
C20_RectifierFallback ==
    (/\ fn.op = "rectify"
     /\ fn.cv # "none"
     /\ fn.cvReady
     /\ (fn.cv = "throws" \/ singular(fn.corners)))
        => /\ fn.rectifier = [kind |-> "source"]
           /\ fn.processed = [kind |-> "source"]

-----------------------------------------------------------------------------
(* Per-frame results of the tracker (SpecTracker) *)

\* four corners with whole-pixel coordinates
isQuad(c) ==
    /\ c # Null
    /\ DOMAIN c = {"tl", "tr", "br", "bl"}
    /\ \A i \in 0..3 : cornerAt(c, i).x \in Int /\ cornerAt(c, i).y \in Int

\* what one process() call leaves behind
C21_ResultStep ==
    \A raw \in RawInputs, m \in Modes :
        (hist'.last = <<raw>> /\ mode' = m /\ ProcessCall(raw, m))
            => /\ finalCorners' = Null \/ isQuad(finalCorners')
               /\ (state'.lastRejectReason # NoReason) <=> ~IsAccepted(raw, m)
               /\ IsAccepted(raw, m) => state'.rejectCount = 0

\* C21: for every per-frame input (absent, malformed, geometry-rejected or
\* valid candidate) process() returns a quad or null; after the call
\* lastRejectReason is set exactly when the frame's candidate was not
\* accepted, and the reject count is 0 after every accepted frame.
C21_ResultAndReason == [][C21_ResultStep]_vars

\* a rejected candidate after accepted ones: the reason is set, the reject
\* is counted and the smoothed quad is returned in its place
C21_Witness ==
    /\ hist.call = "process"
    /\ state.lastRejectReason = "area_too_small"
    /\ state.rejectCount = 1
    /\ finalCorners # Null
    /\ finalCorners = state.smoothedCorners

\* C22: after any sequence of process(), unlock() and reset() calls
\* stableFrameCount lies in 0..STABLE_FRAMES_REQUIRED, so the progress
\* stableFrameCount / STABLE_FRAMES_REQUIRED stays within [0, 1].
C22_ProgressRange ==
    /\ state.stableFrameCount >= 0
    /\ state.stableFrameCount <= STABLE_FRAMES_REQUIRED

\* the count at its upper end, in the frame that locks
C22_Witness ==
    /\ hist.call = "process"
    /\ state.isLocked
    /\ state.stableFrameCount = STABLE_FRAMES_REQUIRED
    /\ state.lastRejectReason = NoReason

-----------------------------------------------------------------------------
(* Smoothing and gating (SpecTracker) *)

\* no corner of quad b is farther from its corner of quad q than the same
\* corner of quad a is
notFarther(b, a, q) ==
    \A i \in 0..3 :
        dist2(cornerAt(b, i), cornerAt(q, i))
            <= dist2(cornerAt(a, i), cornerAt(q, i))

\* what one accepted frame does to the smoothed quad
C23_SmoothStep ==
    \A raw \in RawInputs, m \in Modes :
        (hist'.last = <<raw>> /\ mode' = m /\ ProcessCall(raw, m)
             /\ IsAccepted(raw, m))
            => /\ state.smoothedCorners = Null
                    => state'.smoothedCorners = ensureOrdered(raw)
               /\ (state.smoothedCorners # Null /\ hist.last = <<raw>>)
                    => notFarther(state'.smoothedCorners,
                                  state.smoothedCorners, ensureOrdered(raw))

\* C23: the first accepted quad Q becomes the smoothed quad, and while the
\* same accepted Q is handed in again no smoothed corner gets farther from
\* its corner of Q from one frame to the next, locked or not.
C23_MonotonicSmoothing == [][C23_SmoothStep]_vars

\* a locked tracker whose smoothed quad is on its way to a repeated Q
C23_Witness ==
    /\ hist.call = "process"
    /\ state.isLocked
    /\ hist.last = <<ShiftedRect(24)>>
    /\ state.smoothedCorners # Null
    /\ state.smoothedCorners # ShiftedRect(24)
    /\ state.smoothedCorners # state.lockedRectangle

\* C24: while locked and not unlocking, the quad reported for an accepted
\* frame follows the incoming smoothed quad: when the smoothed quad has
\* left the snapshot taken at lock time, the reported quad is no longer
\* that snapshot.
C24_LockedQuadFollows ==
    [][\A raw \in RawInputs, m \in Modes :
          (/\ ProcessCall(raw, m)
           /\ IsAccepted(raw, m)
           /\ state.isLocked
           /\ state'.isLocked
           /\ state'.smoothedCorners # state.lockedRectangle)
              => finalCorners' # state.lockedRectangle]_vars

\* C25: on an accepted frame, when the mean corner displacement from the
\* gated quad to the new smoothed quad is below JITTER_THRESHOLD the gated
\* quad moves part of the way (it does not stay where it was), and when
\* the displacement is at or above the threshold the gated quad becomes
\* the new smoothed quad.
C25_GatingBlend ==
    [][\A raw \in RawInputs, m \in Modes :
          (/\ ProcessCall(raw, m)
           /\ IsAccepted(raw, m)
           /\ state.previousGatedCorners # Null)
              => LET smoothed ==
                         applyTemporalSmoothing(state, ensureOrdered(raw)).ret
                 IN  IF movementBelow(state.previousGatedCorners, smoothed,
                                      JITTER_THRESHOLD)
                     THEN smoothed # state.previousGatedCorners
                            => state'.previousGatedCorners
                                   # state.previousGatedCorners
                     ELSE state'.previousGatedCorners = smoothed]_vars

\* C27: on a frame without an accepted quad (no candidate, or a rejected
\* one) that follows at least one accepted frame, process() still returns
\* the last known quad, not null, and stableFrameCount decays by 1
\* (floored at 0).
C27_NoAbruptBlank ==
    [][\A raw \in RawInputs, m \in Modes :
          (/\ ProcessCall(raw, m)
           /\ ~IsAccepted(raw, m)
           /\ state.smoothedCorners # Null)
              => /\ finalCorners' # Null
                 /\ finalCorners' = getCurrentCorners(state)
                 /\ state'.stableFrameCount
                        = Max(0, state.stableFrameCount - 1)]_vars

\* C28: while locked, every process() call that does not unlock returns
\* the locked rectangle itself, whether the frame has an accepted
\* candidate, no candidate or a rejected one; process() never returns null
\* while the tracker is locked.
C28_LockedReturnsLocked ==
    [][\A raw \in RawInputs, m \in Modes :
          (/\ ProcessCall(raw, m)
           /\ state.isLocked
           /\ state'.isLocked)
              => /\ finalCorners' # Null
                 /\ finalCorners' = state.lockedRectangle]_vars

\* what unlock() and reset() do to the tracker state
C29_CallStep ==
    /\ hist'.call = "unlock"
          => /\ ~state'.isLocked
             /\ state'.lockedRectangle = Null
             /\ state'.stableFrameCount = 0
             /\ \A f \in DOMAIN state \ {"isLocked", "lockedRectangle",
                                         "stableFrameCount"} :
                    state'[f] = state[f]
    /\ hist'.call = "reset"
          => state' = [smoothedCorners |-> Null, previousGatedCorners |-> Null,
                       stableFrameCount |-> 0, unlockFrameCount |-> 0,
                       lockedRectangle |-> Null, isLocked |-> FALSE,
                       lastRejectReason |-> NoReason, rejectCount |-> 0,
                       previousCorners |-> Null]

\* C29: after any interleaving of process(), unlock() and reset(), isLocked
\* is true exactly when lockedRectangle is set, and a locked tracker has a
\* smoothed quad; unlock() changes only isLocked, lockedRectangle and
\* stableFrameCount; reset() puts every field of the state back to its
\* initial value.
C29_LockConsistency ==
    /\ [](state.isLocked <=> state.lockedRectangle # Null)
    /\ [](state.isLocked => state.smoothedCorners # Null)
    /\ [][C29_CallStep]_vars

\* unlock() called on a locked tracker
C29_Witness ==
    /\ hist.call = "unlock"
    /\ ~state.isLocked
    /\ state.lockedRectangle = Null
    /\ state.smoothedCorners # Null
    /\ state.previousCorners # Null
    /\ state.unlockFrameCount > 0

-----------------------------------------------------------------------------
(* Stability bookkeeping called on its own (SpecStability) *)

\* the area of quad c differs from the area of quad p by less than the
\* area of p: a change by the whole area or more is below no threshold
\* for a small relative change
areaChangeSmall(p, c) == Abs(quadArea2(c) - quadArea2(p)) < quadArea2(p)

\* the count that the bookkeeping of the claim arrives at
expectedCount(s, c) ==
    IF s.previousCorners = Null
           \/ (/\ movementBelow(s.previousCorners, c, JITTER_THRESHOLD * 2)
               /\ areaChangeSmall(s.previousCorners, c))
    THEN s.stableFrameCount + 1
    ELSE Max(0, s.stableFrameCount - 2)

\* C26: on an accepted frame while not locked, stableFrameCount increases
\* by exactly 1 when both the mean corner displacement and the relative
\* area change against the previous accepted quad are small, and otherwise
\* decreases by 2, floored at 0; the tracker is locked in the very frame in
\* which the count reaches STABLE_FRAMES_REQUIRED.
C26_StabilityBookkeeping ==
    (fn.op = "updateStabilityLock" /\ fn.after # Null)
        => /\ fn.after.stableFrameCount = expectedCount(fn.before, fn.corners)
           /\ fn.after.isLocked
                  <=> fn.after.stableFrameCount >= STABLE_FRAMES_REQUIRED

-----------------------------------------------------------------------------
(* The detection loop when a frame fails (SpecAppFault) *)

\* C30: the re-entrancy guard is always released, also when processFrame
\* fails: "detecting" is true only while a frame attempt is in progress, and
\* after a failed attempt the loop is still scheduled, so that the loop
\* never stalls while the stream is active.
C30_GuardReleased ==
    /\ app.detecting => loops.flying # <<>>
    /\ (app.stream /\ app.detecting) => loops.ready + Len(loops.flying) > 0

====
